---------------------------- MODULE Spec2Model ----------------------------
(***************************************************************************)
(* Model of src/traits.go: the functional options that build a Traits      *)
(* value (package graph) and the DOT export pipeline DOT -> generateDOT -> *)
(* renderDOT (package draw).                                               *)
(*                                                                         *)
(* Vertex keys are the Go type int, whose zero value is 0.  An interface{} *)
(* field (statement.Target) is the empty sequence when it is nil and the   *)
(* one-element sequence <<k>> when it boxes the key k.  An error is the    *)
(* sequence of its messages, outermost wrapper first; nil is <<>>.  The    *)
(* sink's content is the sequence of chunks it accepted, grouped by the    *)
(* template segment that produced them (header, one group per statement,   *)
(* footer).                                                                *)
(***************************************************************************)
EXTENDS Integers, Sequences, FiniteSets, TLC

VARIABLES
    traits,     \* the graph's Traits value
    applied,    \* the options applied to it so far, in order
    adjacency,  \* what g.AdjacencyMap() yields: vertex -> (adjacent vertex -> edge properties)
    amErr,      \* TRUE when g.AdjacencyMap() returns an error
    pc,         \* position of the running call
    callNo,     \* which generateDOT call of the caller is running
    pending,    \* keys of adjacencyMap the outer range has not yet yielded
    curV,       \* the vertex of the running inner range, boxed; <<>> outside it
    curAdj,     \* keys of adjacencies the inner range has not yet yielded
    desc,       \* the description generateDOT is building / has returned
    genErr,     \* the error generateDOT returned
    prev,       \* the description the caller kept from its first generateDOT call
    out,        \* chunks the sink has accepted, grouped by template segment
    rSeg,       \* template segment Execute is in: 1 header, 1+i statement i, last footer
    rTok,       \* next chunk of that segment
    attempts,   \* number of Write calls issued to the sink
    rejected,   \* number of Write calls the sink rejected
    err         \* the error DOT returned

vars == <<traits, applied, adjacency, amErr, pc, callNo, pending, curV, curAdj,
          desc, genErr, prev, out, rSeg, rTok, attempts, rejected, err>>

----------------------------------------------------------------------------
(* Bounds *)

MaxKey == 1
MaxEntries == 2
MaxOpts == 3

Keys == 0 .. MaxKey

\* The edge properties the adjacency view may carry: (weight, attributes).
\* An attribute mapping is the set of its (name, value) pairs; nil and the
\* empty map are both the empty set.
EdgeProps ==
    { [Weight |-> 0, Attributes |-> {}],
      [Weight |-> 5, Attributes |-> {}],
      [Weight |-> 5, Attributes |-> {<<"color", "red">>}] }

----------------------------------------------------------------------------
(* package graph: Traits and its options *)

ZeroTraits ==
    [IsDirected |-> FALSE, IsAcyclic |-> FALSE, IsWeighted |-> FALSE, IsRooted |-> FALSE]

Directed(t) == [t EXCEPT !.IsDirected = TRUE]

Acyclic(t) == [t EXCEPT !.IsAcyclic = TRUE]

Weighted(t) == [t EXCEPT !.IsWeighted = TRUE]

Rooted(t) == [t EXCEPT !.IsRooted = TRUE]

\* Variant of Tree that forgets Rooted.
TreeOnlyAcyclic(t) == Acyclic(t)

Tree(t) == Rooted(Acyclic(t))

\* Passing an option to the constructor applies it to the Traits being built.
ApplyDirected ==
    /\ pc = "config"
    /\ Len(applied) < MaxOpts
    /\ traits' = Directed(traits)
    /\ applied' = Append(applied, "Directed")
    /\ UNCHANGED <<adjacency, amErr, pc, callNo, pending, curV, curAdj, desc,
                   genErr, prev, out, rSeg, rTok, attempts, rejected, err>>

ApplyAcyclic ==
    /\ pc = "config"
    /\ Len(applied) < MaxOpts
    /\ traits' = Acyclic(traits)
    /\ applied' = Append(applied, "Acyclic")
    /\ UNCHANGED <<adjacency, amErr, pc, callNo, pending, curV, curAdj, desc,
                   genErr, prev, out, rSeg, rTok, attempts, rejected, err>>

ApplyWeighted ==
    /\ pc = "config"
    /\ Len(applied) < MaxOpts
    /\ traits' = Weighted(traits)
    /\ applied' = Append(applied, "Weighted")
    /\ UNCHANGED <<adjacency, amErr, pc, callNo, pending, curV, curAdj, desc,
                   genErr, prev, out, rSeg, rTok, attempts, rejected, err>>

ApplyRooted ==
    /\ pc = "config"
    /\ Len(applied) < MaxOpts
    /\ traits' = Rooted(traits)
    /\ applied' = Append(applied, "Rooted")
    /\ UNCHANGED <<adjacency, amErr, pc, callNo, pending, curV, curAdj, desc,
                   genErr, prev, out, rSeg, rTok, attempts, rejected, err>>

ApplyTree ==
    /\ pc = "config"
    /\ Len(applied) < MaxOpts
    /\ traits' = Tree(traits)
    /\ applied' = Append(applied, "Tree")
    /\ UNCHANGED <<adjacency, amErr, pc, callNo, pending, curV, curAdj, desc,
                   genErr, prev, out, rSeg, rTok, attempts, rejected, err>>

\* The zero value of description.
ZeroDesc == [GraphType |-> "", EdgeOperator |-> "", Statements |-> <<>>]

InitCall ==
    /\ callNo = 1
    /\ pending = {}
    /\ curV = <<>>
    /\ curAdj = {}
    /\ desc = ZeroDesc
    /\ genErr = <<>>
    /\ prev = ZeroDesc
    /\ out = <<>>
    /\ rSeg = 1
    /\ rTok = 1
    /\ attempts = 0
    /\ rejected = 0
    /\ err = <<>>

InitTraits ==
    /\ traits = ZeroTraits
    /\ applied = <<>>
    /\ adjacency = <<>>
    /\ amErr = FALSE
    /\ pc = "config"
    /\ InitCall

NextTraits == ApplyDirected \/ ApplyAcyclic \/ ApplyWeighted \/ ApplyRooted \/ ApplyTree

SpecTraits == InitTraits /\ [][NextTraits]_vars

----------------------------------------------------------------------------
(* package draw: generateDOT *)

\* The adjacency map with vertices V, entries E (pairs source, target) and
\* edge properties p.
ViewOf(V, E, p) ==
    [v \in V |-> [u \in {w \in V : <<v, w>> \in E} |-> p[<<v, u>>]]]

AllTraits ==
    [IsDirected : BOOLEAN, IsAcyclic : BOOLEAN, IsWeighted : BOOLEAN, IsRooted : BOOLEAN]

\* desc := description{"graph", "--", []}; if g.Traits().IsDirected { "digraph", "->" }
\* Variant of Header in which IsRooted influences the pair.
HeaderByRooted(t) ==
    IF t.IsDirected /\ ~t.IsRooted
    THEN [GraphType |-> "digraph", EdgeOperator |-> "->", Statements |-> <<>>]
    ELSE [GraphType |-> "graph", EdgeOperator |-> "--", Statements |-> <<>>]

Header(t) ==
    IF t.IsDirected
    THEN [GraphType |-> "digraph", EdgeOperator |-> "->", Statements |-> <<>>]
    ELSE [GraphType |-> "graph", EdgeOperator |-> "--", Statements |-> <<>>]

\* statement{Source: vertex}: Target is the nil interface, Weight 0, Attributes nil.
VertexStatement(v) ==
    [Source |-> v, Target |-> <<>>, Weight |-> 0, Attributes |-> {}]

\* Variant of EdgeStatement with source and target swapped.
EdgeStatementReversed(v, u, edge) ==
    [Source |-> u, Target |-> <<v>>, Weight |-> edge.Weight, Attributes |-> edge.Attributes]

\* statement{Source: vertex, Target: adjacency, Weight: ..., Attributes: ...}
EdgeStatement(v, u, edge) ==
    [Source |-> v, Target |-> <<u>>, Weight |-> edge.Weight, Attributes |-> edge.Attributes]

\* The error g.AdjacencyMap() returns when it fails.
ErrAdjacency == <<"adjacency map unavailable">>

\* generateDOT up to the range loop: build the header from the traits, then
\* obtain the adjacency map and return early when that fails.
generateDOTBegin ==
    /\ pc = "start"
    /\ desc' = Header(traits)
    /\ IF amErr
       THEN /\ genErr' = ErrAdjacency
            /\ pc' = "returned"
            /\ pending' = {}
       ELSE /\ genErr' = <<>>
            /\ pc' = "range"
            /\ pending' = DOMAIN adjacency
    /\ UNCHANGED <<traits, applied, adjacency, amErr, callNo, curV, curAdj,
                   prev, out, rSeg, rTok, attempts, rejected, err>>

\* Variant of RangeVertex that appends nothing for a vertex without adjacencies.
RangeVertexSkipsIsolated ==
    /\ pc = "range"
    /\ \E v \in pending :
          /\ pending' = pending \ {v}
          /\ IF DOMAIN adjacency[v] = {}
             THEN /\ UNCHANGED desc
                  /\ UNCHANGED <<pc, curV, curAdj>>
             ELSE /\ curV' = <<v>>
                  /\ curAdj' = DOMAIN adjacency[v]
                  /\ pc' = "inner"
                  /\ UNCHANGED desc
    /\ UNCHANGED <<traits, applied, adjacency, amErr, callNo, genErr,
                   prev, out, rSeg, rTok, attempts, rejected, err>>

\* Variant of RangeVertex that appends a vertex statement only to an empty list.
RangeVertexOnceOnly ==
    /\ pc = "range"
    /\ \E v \in pending :
          /\ pending' = pending \ {v}
          /\ IF DOMAIN adjacency[v] = {}
             THEN /\ desc' = IF desc.Statements = <<>>
                             THEN [desc EXCEPT !.Statements = Append(@, VertexStatement(v))]
                             ELSE desc
                  /\ UNCHANGED <<pc, curV, curAdj>>
             ELSE /\ curV' = <<v>>
                  /\ curAdj' = DOMAIN adjacency[v]
                  /\ pc' = "inner"
                  /\ UNCHANGED desc
    /\ UNCHANGED <<traits, applied, adjacency, amErr, callNo, genErr,
                   prev, out, rSeg, rTok, attempts, rejected, err>>

\* One iteration of `for vertex, adjacencies := range adjacencyMap`: the map
\* yields any key it has not yielded yet.  With no adjacencies the vertex gets
\* its own statement and the loop continues; otherwise the inner range starts.
RangeVertex ==
    /\ pc = "range"
    /\ \E v \in pending :
          /\ pending' = pending \ {v}
          /\ IF DOMAIN adjacency[v] = {}
             THEN /\ desc' = [desc EXCEPT !.Statements = Append(@, VertexStatement(v))]
                  /\ UNCHANGED <<pc, curV, curAdj>>
             ELSE /\ curV' = <<v>>
                  /\ curAdj' = DOMAIN adjacency[v]
                  /\ pc' = "inner"
                  /\ UNCHANGED desc
    /\ UNCHANGED <<traits, applied, adjacency, amErr, callNo, genErr,
                   prev, out, rSeg, rTok, attempts, rejected, err>>

\* One iteration of `for adjacency, edge := range adjacencies`.
RangeAdjacency ==
    /\ pc = "inner"
    /\ \E u \in curAdj :
          /\ desc' = [desc EXCEPT !.Statements =
                         Append(@, EdgeStatement(curV[1], u, adjacency[curV[1]][u]))]
          /\ curAdj' = curAdj \ {u}
          /\ IF curAdj' = {}
             THEN pc' = "range" /\ curV' = <<>>
             ELSE UNCHANGED <<pc, curV>>
    /\ UNCHANGED <<traits, applied, adjacency, amErr, callNo, pending, genErr,
                   prev, out, rSeg, rTok, attempts, rejected, err>>

\* The outer range is exhausted: return desc, nil.
generateDOTReturn ==
    /\ pc = "range"
    /\ pending = {}
    /\ pc' = "returned"
    /\ UNCHANGED <<traits, applied, adjacency, amErr, callNo, pending, curV, curAdj,
                   desc, genErr, prev, out, rSeg, rTok, attempts, rejected, err>>

\* The entry sets an adjacency map over the vertices V may have.
EntrySets(V) == { E \in SUBSET (V \X V) : Cardinality(E) <= MaxEntries }

\* A graph with keys in Keys, at most MaxEntries adjacency entries and edge
\* properties from EdgeProps, directed or not, whose AdjacencyMap may fail.
InitGraph ==
    /\ traits \in {ZeroTraits, Directed(ZeroTraits)}
    /\ applied = <<>>
    /\ amErr \in BOOLEAN
    /\ \E V \in SUBSET Keys : \E E \in EntrySets(V) : \E p \in [E -> EdgeProps] :
          adjacency = ViewOf(V, E, p)

----------------------------------------------------------------------------
(* package draw: dotTemplate, renderDOT and DOT *)

Digits == <<"0", "1", "2", "3", "4", "5", "6", "7", "8", "9">>

\* The text the template prints for a non-negative int: its decimal digits.
RECURSIVE Itoa(_)
Itoa(n) == IF n < 10 THEN Digits[n + 1] ELSE Itoa(n \div 10) \o Digits[(n % 10) + 1]

\* {{if .Target}}: the template's truth of an interface{} value is the truth
\* of what it boxes; nil is false, and so is an int equal to 0.
isTrue(target) == target # <<>> /\ target[1] # 0

\* The attribute names in the order {{range $k, $v := .Attributes}} visits
\* them: a template ranges over a map in sorted key order.
AttrKeyOrder == <<"color", "style">>

\* {{range $k, $v := .Attributes}}{{$k}}="{{$v}}", {{end}} from the i-th name on.
RECURSIVE AttrChunks(_, _)
AttrChunks(attrs, i) ==
    IF i > Len(AttrKeyOrder)
    THEN <<>>
    ELSE LET here == { a \in attrs : a[1] = AttrKeyOrder[i] }
         IN  (IF here = {}
              THEN <<>>
              ELSE LET a == CHOOSE x \in here : TRUE
                   IN  <<a[1], "=\"", a[2], "\", ">>)
             \o AttrChunks(attrs, i + 1)

\* The chunks Execute writes for one statement, one Write call each.
StatementChunks(s, op) ==
    <<"\n\t", Itoa(s.Source), " ">>
    \o (IF isTrue(s.Target)
        THEN <<op, " ", Itoa(s.Target[1]), " [ ">>
             \o AttrChunks(s.Attributes, 1)
             \o <<" weight=", Itoa(s.Weight), " ]">>
        ELSE <<>>)
    \o <<";\n">>

\* Everything Execute writes for d: header, one segment per statement, footer.
Segments(d) ==
    <<  <<"strict ", d.GraphType, " {\n">>  >>
    \o [i \in 1 .. Len(d.Statements) |-> StatementChunks(d.Statements[i], d.EdgeOperator)]
    \o <<  <<"\n}\n">>  >>

\* template.New("dotTemplate").Parse(dotTemplate): the constant template is
\* well formed, so Parse returns no error.
ErrParse == <<>>

\* The error the sink returns from a Write it rejects.
ErrWrite == <<"write rejected">>

\* fmt.Errorf("failed to generate DOT description: %w", err)
WrapGenerate(e) == <<"failed to generate DOT description">> \o e

\* Variant of DOTAfterGenerate that renders whatever generateDOT returned.
DOTIgnoresError ==
    /\ pc = "returned"
    /\ pc' = "render"
    /\ rSeg' = 1
    /\ rTok' = 1
    /\ UNCHANGED err
    /\ UNCHANGED <<traits, applied, adjacency, amErr, callNo, pending, curV, curAdj,
                   desc, genErr, prev, out, attempts, rejected>>

\* DOT after generateDOT has returned: return the wrapped error, or enter
\* renderDOT, which parses the template and starts Execute.
DOTAfterGenerate ==
    /\ pc = "returned"
    /\ IF genErr # <<>>
       THEN /\ err' = WrapGenerate(genErr)
            /\ pc' = "done"
            /\ UNCHANGED <<rSeg, rTok>>
       ELSE IF ErrParse # <<>>
       THEN /\ err' = <<"failed to parse template">> \o ErrParse
            /\ pc' = "done"
            /\ UNCHANGED <<rSeg, rTok>>
       ELSE /\ pc' = "render"
            /\ rSeg' = 1
            /\ rTok' = 1
            /\ UNCHANGED err
    /\ UNCHANGED <<traits, applied, adjacency, amErr, callNo, pending, curV, curAdj,
                   desc, genErr, prev, out, attempts, rejected>>

\* Execute issues its next Write and the sink accepts the chunk.  After the
\* last chunk Execute returns nil, and so do renderDOT and DOT.
ExecuteWrite ==
    /\ pc = "render"
    /\ LET segs == Segments(desc)
           chunk == segs[rSeg][rTok]
       IN  /\ out' = IF Len(out) < rSeg
                     THEN Append(out, <<chunk>>)
                     ELSE [out EXCEPT ![rSeg] = Append(@, chunk)]
           /\ attempts' = attempts + 1
           /\ IF rTok < Len(segs[rSeg])
              THEN /\ rTok' = rTok + 1
                   /\ UNCHANGED <<rSeg, pc, err>>
              ELSE IF rSeg < Len(segs)
              THEN /\ rSeg' = rSeg + 1
                   /\ rTok' = 1
                   /\ UNCHANGED <<pc, err>>
              ELSE /\ pc' = "done"
                   /\ err' = <<>>
                   /\ UNCHANGED <<rSeg, rTok>>
    /\ UNCHANGED <<traits, applied, adjacency, amErr, callNo, pending, curV, curAdj,
                   desc, genErr, prev, rejected>>

\* Variant of ExecuteWriteFails that issues the rejected Write again.
ExecuteWriteRetries ==
    /\ pc = "render"
    /\ rejected < 2
    /\ attempts' = attempts + 1
    /\ rejected' = rejected + 1
    /\ UNCHANGED <<traits, applied, adjacency, amErr, pc, callNo, pending, curV, curAdj,
                   desc, genErr, prev, out, rSeg, rTok, err>>

\* Execute issues its next Write and the sink rejects it, accepting nothing
\* of the chunk: Execute stops and returns the sink's error, which renderDOT
\* and DOT return as it is.
ExecuteWriteFails ==
    /\ pc = "render"
    /\ attempts' = attempts + 1
    /\ rejected' = rejected + 1
    /\ err' = ErrWrite
    /\ pc' = "done"
    /\ UNCHANGED <<traits, applied, adjacency, amErr, callNo, pending, curV, curAdj,
                   desc, genErr, prev, out, rSeg, rTok>>

Init == InitGraph /\ pc = "start" /\ InitCall

Next ==
    \/ generateDOTBegin
    \/ RangeVertex
    \/ RangeAdjacency
    \/ generateDOTReturn
    \/ DOTAfterGenerate
    \/ ExecuteWrite
    \/ ExecuteWriteFails

Spec == Init /\ [][Next]_vars

----------------------------------------------------------------------------
(* Two generateDOT calls on the same graph *)

\* The caller keeps the first description and calls generateDOT again.
CallAgain ==
    /\ pc = "returned"
    /\ callNo = 1
    /\ prev' = desc
    /\ callNo' = 2
    /\ desc' = ZeroDesc
    /\ genErr' = <<>>
    /\ pc' = "start"
    /\ UNCHANGED <<traits, applied, adjacency, amErr, pending, curV, curAdj,
                   out, rSeg, rTok, attempts, rejected, err>>

InitTwice == InitGraph /\ pc = "start" /\ InitCall

NextTwice ==
    generateDOTBegin \/ RangeVertex \/ RangeAdjacency \/ generateDOTReturn \/ CallAgain

SpecTwice == InitTwice /\ [][NextTwice]_vars

----------------------------------------------------------------------------
(* The example graph: vertices {1,2,3}, edges {(1,2),(1,3)} *)

ExampleVertices == {1, 2, 3}

ExampleEdges == {<<1, 2>>, <<1, 3>>}

Mirrored(E) == E \cup { <<e[2], e[1]>> : e \in E }

\* Graph.AdjacencyMap of a graph with vertices V and unweighted edges E: every
\* vertex has an entry; a directed graph lists each edge under its source, an
\* undirected graph lists it under its first endpoint only or under both
\* endpoints (bothEnds).
AdjacencyMapOf(V, E, directed, bothEnds) ==
    LET L == IF directed \/ ~bothEnds THEN E ELSE Mirrored(E)
    IN  ViewOf(V, L, [e \in L |-> [Weight |-> 0, Attributes |-> {}]])

InitExample ==
    /\ traits \in AllTraits
    /\ applied = <<>>
    /\ amErr \in BOOLEAN
    /\ \E b \in BOOLEAN :
          adjacency = AdjacencyMapOf(ExampleVertices, ExampleEdges, traits.IsDirected, b)
    /\ pc = "start"
    /\ InitCall

NextExample == generateDOTBegin \/ RangeVertex \/ RangeAdjacency \/ generateDOTReturn

SpecExample == InitExample /\ [][NextExample]_vars

----------------------------------------------------------------------------
(* Vocabulary of the properties *)

Range(s) == { s[i] : i \in 1 .. Len(s) }

Has(line, chunk) == \E j \in 1 .. Len(line) : line[j] = chunk

\* The adjacency entries (v, u) of the view, and its vertices without any.
EntriesOf(adj) == UNION { { <<v, u>> : u \in DOMAIN adj[v] } : v \in DOMAIN adj }

IsolatedOf(adj) == { v \in DOMAIN adj : DOMAIN adj[v] = {} }

\* Positions of the statements with and without a target.
EdgeStmts(d) == { i \in 1 .. Len(d.Statements) : d.Statements[i].Target # <<>> }

VertexStmts(d) == { i \in 1 .. Len(d.Statements) : d.Statements[i].Target = <<>> }

StmtsFrom(d, v) == { i \in 1 .. Len(d.Statements) : d.Statements[i].Source = v }

RECURSIVE Flat(_)
Flat(groups) == IF groups = <<>> THEN <<>> ELSE Head(groups) \o Flat(Tail(groups))

IsPrefix(a, b) == Len(a) <= Len(b) /\ SubSeq(b, 1, Len(a)) = a

\* DOT has returned nil: the sink holds the whole document.
Rendered == pc = "done" /\ err = <<>>

----------------------------------------------------------------------------
(* C1 *)

\* C1: once DOT has rendered the whole document, the line of every statement
\* built from an adjacency entry (v, u) -- u = 0, the key type's zero value,
\* included -- contains v, the edge operator, u and a bracket clause that
\* ends with weight=<the edge's weight>, with or without attributes.
C1_EdgeLineHasTargetAndWeight ==
    Rendered =>
        \A i \in EdgeStmts(desc) :
            LET s == desc.Statements[i]
                line == out[i + 1]
                n == Len(line)
            IN  /\ line[2] = Itoa(s.Source)
                /\ Has(line, desc.EdgeOperator)
                /\ \E j \in 3 .. n : line[j] = Itoa(s.Target[1])
                /\ Has(line, " [ ")
                /\ n >= 4
                /\ line[n - 3] = " weight="
                /\ line[n - 2] = Itoa(s.Weight)
                /\ line[n - 1] = " ]"

----------------------------------------------------------------------------
(* C2 *)

\* C2: once DOT has rendered the whole document, every vertex with an empty
\* adjacency set has exactly one statement, without target, whose line is the
\* bare vertex; every statement of a vertex with adjacencies has a target and
\* its line carries the edge operator and more than the bare vertex.
C2_IsolatedVerticesOnly ==
    (Rendered /\ ~amErr) =>
        \A v \in DOMAIN adjacency :
            IF DOMAIN adjacency[v] = {}
            THEN /\ Cardinality(StmtsFrom(desc, v)) = 1
                 /\ \A i \in StmtsFrom(desc, v) :
                        /\ desc.Statements[i].Target = <<>>
                        /\ out[i + 1] = <<"\n\t", Itoa(v), " ", ";\n">>
            ELSE \A i \in StmtsFrom(desc, v) :
                        /\ desc.Statements[i].Target # <<>>
                        /\ Has(out[i + 1], desc.EdgeOperator)
                        /\ Len(out[i + 1]) > 4

----------------------------------------------------------------------------
(* C3 *)

ExampleReturned == pc = "returned" /\ ~amErr /\ ~traits.IsDirected

\* C3 as stated: the undirected example yields "graph" / "--", exactly two
\* edge statements and no isolated-vertex statement.
C3_TwoEdgesNoIsolated ==
    ExampleReturned =>
        /\ desc.GraphType = "graph"
        /\ desc.EdgeOperator = "--"
        /\ Cardinality(EdgeStmts(desc)) = 2
        /\ Cardinality(VertexStmts(desc)) = 0

\* C3 amended: the undirected example yields "graph" / "--" and, under every
\* iteration order, either the edge statements (1,2), (1,3) plus one
\* isolated-vertex statement each for 2 and 3 (the view lists an edge under
\* its first endpoint only), or the four edge statements (1,2), (1,3), (2,1),
\* (3,1) and no isolated-vertex statement (the view lists it under both).
C3_EveryVertexHasAStatement ==
    ExampleReturned =>
        /\ desc.GraphType = "graph"
        /\ desc.EdgeOperator = "--"
        /\ Len(desc.Statements) = 4
        /\ LET pairs == { <<desc.Statements[i].Source, desc.Statements[i].Target>> :
                            i \in 1 .. Len(desc.Statements) }
           IN  IF DOMAIN adjacency[2] = {}
               THEN pairs = { <<1, <<2>> >>, <<1, <<3>> >>, <<2, <<>> >>, <<3, <<>> >> }
               ELSE pairs = { <<1, <<2>> >>, <<1, <<3>> >>, <<2, <<1>> >>, <<3, <<1>> >> }

\* generateDOT has returned for the undirected example whose view lists each
\* edge under its first endpoint: two edge and two isolated-vertex statements.
C3_Witness ==
    /\ ExampleReturned
    /\ Cardinality(EdgeStmts(desc)) = 2
    /\ Cardinality(VertexStmts(desc)) = 2

----------------------------------------------------------------------------
(* C4 *)

\* C4: every description generateDOT has built a header for -- the one it
\* returns with an error included -- has ("digraph", "->") when IsDirected is
\* set and ("graph", "--") otherwise, whatever the other three flags are.
C4_HeaderPair ==
    (pc \in {"range", "inner", "returned"}) =>
        <<desc.GraphType, desc.EdgeOperator>> =
            (IF traits.IsDirected THEN <<"digraph", "->">> ELSE <<"graph", "--">>)

\* generateDOT returned an error for a directed graph with the other flags set.
C4_Witness ==
    /\ pc = "returned"
    /\ genErr # <<>>
    /\ traits.IsDirected /\ traits.IsRooted /\ traits.IsAcyclic /\ traits.IsWeighted
    /\ desc.GraphType = "digraph"

----------------------------------------------------------------------------
(* C5 *)

\* C5: a Write is issued to the sink only after AdjacencyMap has succeeded
\* and every statement has been appended to the description; when
\* AdjacencyMap fails, DOT issues no Write and returns that error wrapped in
\* the message of the description-generation stage.
C5_NoWriteBeforeDescription ==
    /\ (attempts > 0 \/ out # <<>>) =>
          /\ ~amErr
          /\ genErr = <<>>
          /\ pc \in {"render", "done"}
          /\ pending = {} /\ curAdj = {}
          /\ Len(desc.Statements) =
                Cardinality(EntriesOf(adjacency)) + Cardinality(IsolatedOf(adjacency))
    /\ (pc = "done" /\ amErr) =>
          /\ attempts = 0
          /\ out = <<>>
          /\ err = <<"failed to generate DOT description">> \o ErrAdjacency

\* DOT has returned after AdjacencyMap failed.
C5_Witness ==
    /\ pc = "done"
    /\ amErr
    /\ Len(err) = 2
    /\ DOMAIN adjacency # {}

----------------------------------------------------------------------------
(* C6 *)

\* C6: what the sink has accepted is never changed, only extended; the Write
\* the sink rejects adds nothing, makes the call return an error, and is
\* followed by no other Write, so it is not retried either.
C6_SinkFailureStopsWriting ==
    [][ /\ IsPrefix(Flat(out), Flat(out'))
        /\ (rejected' > rejected) => (out' = out /\ pc' = "done" /\ err' # <<>>)
        /\ (rejected > 0) => (out' = out /\ attempts' = attempts /\ rejected' = rejected)
        /\ rejected' <= 1 ]_vars

\* The sink rejected a Write after it had accepted the header and more.
C6_Witness ==
    /\ pc = "done"
    /\ rejected = 1
    /\ Len(out) >= 2
    /\ attempts = Len(Flat(out)) + 1
    /\ err # <<>>

----------------------------------------------------------------------------
(* C7 *)

\* C7: an error of the render stage reaches the caller of DOT wrapped in a
\* message that identifies the stage, never as the bare underlying error.
C7_RenderErrorsWrapped ==
    (pc = "done" /\ rejected > 0) => (Len(err) >= 2 /\ err # ErrWrite)

----------------------------------------------------------------------------
(* C9 *)

\* C9: when AdjacencyMap succeeds, the returned statements correspond one to
\* one to the adjacency entries plus the vertices without adjacencies: each
\* entry (v, u) has exactly one statement, with source v, target u and the
\* entry's weight and attributes; each vertex without adjacencies has exactly
\* one, without target; there is no other statement, in particular none
\* (u, v) unless (u, v) is an entry; and the edge statements are as many as
\* the entries.
C9_StatementsMirrorAdjacency ==
    (pc \in {"returned", "render", "done"} /\ ~amErr) =>
        LET st == desc.Statements
            entries == EntriesOf(adjacency)
        IN  /\ \A e \in entries :
                  Cardinality({ i \in 1 .. Len(st) :
                      st[i] = [Source |-> e[1], Target |-> <<e[2]>>,
                               Weight |-> adjacency[e[1]][e[2]].Weight,
                               Attributes |-> adjacency[e[1]][e[2]].Attributes] }) = 1
            /\ \A v \in IsolatedOf(adjacency) :
                  Cardinality({ i \in 1 .. Len(st) :
                      st[i].Source = v /\ st[i].Target = <<>> }) = 1
            /\ Len(st) = Cardinality(entries) + Cardinality(IsolatedOf(adjacency))
            /\ \A i \in EdgeStmts(desc) : <<st[i].Source, st[i].Target[1]>> \in entries
            /\ Cardinality(EdgeStmts(desc)) = Cardinality(entries)

\* generateDOT returned for a view with the entry (1, 0) but not (0, 1), a
\* weighted entry with attributes, and a vertex without adjacencies.
C9_Witness ==
    /\ pc = "returned"
    /\ ~amErr
    /\ <<1, 0>> \in EntriesOf(adjacency)
    /\ <<0, 1>> \notin EntriesOf(adjacency)
    /\ IsolatedOf(adjacency) # {}
    /\ \E i \in EdgeStmts(desc) : desc.Statements[i].Attributes # {}

----------------------------------------------------------------------------
(* C10 *)

\* C10: no step of generateDOT changes the graph's traits or adjacency view,
\* and when the second of two calls returns, its header pair equals the
\* first call's and its statements are the same set as the first call's,
\* whatever orders the two calls iterated in.
C10_RepeatableExport ==
    [][ /\ traits' = traits
        /\ adjacency' = adjacency
        /\ (callNo' = 2 /\ pc' = "returned") =>
              /\ prev'.GraphType = desc'.GraphType
              /\ prev'.EdgeOperator = desc'.EdgeOperator
              /\ Range(prev'.Statements) = Range(desc'.Statements)
              /\ Len(prev'.Statements) = Len(desc'.Statements) ]_vars

\* The second call returned the same statements in another order.
C10_Witness ==
    /\ callNo = 2
    /\ pc = "returned"
    /\ prev.Statements # desc.Statements
    /\ Range(prev.Statements) = Range(desc.Statements)

----------------------------------------------------------------------------
(* C8 *)

\* The flags an option stands for; Tree counts as exactly {IsAcyclic, IsRooted}.
FlagsOf(o) ==
    CASE o = "Directed" -> {"IsDirected"}
      [] o = "Acyclic" -> {"IsAcyclic"}
      [] o = "Weighted" -> {"IsWeighted"}
      [] o = "Rooted" -> {"IsRooted"}
      [] o = "Tree" -> {"IsAcyclic", "IsRooted"}

FlagUnion(s) == UNION { FlagsOf(s[i]) : i \in 1 .. Len(s) }

FlagNames == {"IsDirected", "IsAcyclic", "IsWeighted", "IsRooted"}

\* C8 (state part): after any sequence of options the Traits value is the
\* flag-wise union of the options applied, Tree counting as Acyclic plus
\* Rooted; the value therefore depends neither on the order of the options
\* nor on how often each was applied.
TraitsAreFlagUnion ==
    \A f \in FlagNames : traits[f] <=> (f \in FlagUnion(applied))

\* C8: a flag that has become true is never cleared by a later option, and
\* the Traits value is always the flag-wise union of the options applied.
C8_OptionsOnlySetFlags ==
    [][ /\ \A f \in FlagNames : traits[f] => traits'[f]
        /\ TraitsAreFlagUnion' ]_vars

\* Tree has been applied on top of other options and both of its flags are set.
C8_Witness ==
    /\ Len(applied) = MaxOpts
    /\ applied[MaxOpts] = "Tree"
    /\ applied[1] = "Rooted"
    /\ traits.IsAcyclic /\ traits.IsRooted /\ ~traits.IsDirected

============================================================================
